---- MODULE Spec2Model ----
(***************************************************************************)
(* The dataset reconcilers of "espn preconditioner data merge":            *)
(*   - postscrapemerge.py  (current reconciler, identity = Name)           *)
(*   - backup data do not touch/postscrapemerge.py                         *)
(*                        (composite-key reconciler, Player|Date|Opponent) *)
(*                                                                         *)
(* A CSV file is a record [kind, cols, rows]:                              *)
(*   kind = "absent"   the path does not exist                             *)
(*   kind = "corrupt"  the path exists, pandas.read_csv raises on it       *)
(*   kind = "csv"      header `cols` and the data rows                     *)
(* A row is a record over every column of the universe; a cell of a column *)
(* the file does not have, and an empty cell, are both "" (read_csv reads  *)
(* an empty cell as NaN and to_csv writes NaN as an empty cell; concat     *)
(* fills the columns a frame lacks with NaN).  A cell is the text the file  *)
(* holds.  read_csv infers the dtype of a numeric column (int64 when every *)
(* cell is an integer, float64 when a cell is empty or a float), concat    *)
(* takes the common dtype of the frames that have rows, and to_csv writes  *)
(* a float64 cell with its decimal point: 5 is written 5.0.  Name,         *)
(* Division Title, Player, Date and Opponent are text columns (object);    *)
(* the dates are written 1 and 2, in their order.  Column order is not     *)
(* modelled.                                                               *)
(***************************************************************************)
EXTENDS Integers, Sequences, FiniteSets, TLC

\* Bound: the number of data rows of a scraped (or initially present) file.
MaxRows == 2

\* ------------------------------------------------------------------------
\* Current reconciler: data universe
\* ------------------------------------------------------------------------
AllCols == {"Name", "Division Title", "Wins"}

Absent == [kind |-> "absent", cols |-> {}, rows |-> << >>]
Corrupt == [kind |-> "corrupt", cols |-> {}, rows |-> << >>]

Csv(cols, rows) == [kind |-> "csv", cols |-> cols, rows |-> rows]

\* os.path.exists(file)
Exists(f) == f.kind # "absent"

\* Rows of a file with every column.  Fighter A has rows that differ in the
\* division and rows that differ in Wins only; one row of fighter B is enough
\* to have a second fighter who is new, common or purged.
FullRows ==
    {[Name |-> "A", Division |-> "X", Wins |-> "5"],
     [Name |-> "A", Division |-> "X", Wins |-> ""],
     [Name |-> "A", Division |-> "Y", Wins |-> "5"],
     [Name |-> "B", Division |-> "X", Wins |-> "5"]}

\* Rows of a file without the Division Title column.
NoDivRows == [Name : {"A", "B"}, Division : {""}, Wins : {"5"}]

\* Rows of a file without the Name column.
NoNameRows == [Name : {""}, Division : {"X"}, Wins : {"5"}]

SeqUpTo(S, n) == UNION {[1..k -> S] : k \in 0..n}

Files ==
    {Absent, Corrupt}
        \cup {Csv(AllCols, r) : r \in SeqUpTo(FullRows, MaxRows)}
        \cup {Csv({"Name", "Wins"}, r) : r \in SeqUpTo(NoDivRows, 1)}
        \cup {Csv({"Division Title", "Wins"}, r) : r \in SeqUpTo(NoNameRows, 1)}

\* ------------------------------------------------------------------------
\* pandas helpers
\* ------------------------------------------------------------------------
\* The integer cells of the universe, as a file holds them
IntTexts == {"0", "5", "6"}

\* str(x) and to_csv of a float64 value: the integer n is written n.0
float_format(c) ==
    CASE c = "0" -> "0.0"
      [] c = "5" -> "5.0"
      [] c = "6" -> "6.0"
      [] OTHER -> c

\* read_csv: the dtype inferred for a numeric column from its cells; "empty"
\* is the column of a frame without rows
ColDtype(cells) ==
    IF cells = {} THEN "empty"
    ELSE IF cells \subseteq IntTexts THEN "int64"
    ELSE "float64"

\* pd.concat: the dtype of a column of the result; a frame without rows does
\* not count
CommonDtype(d1, d2) ==
    IF d1 = "empty" THEN d2
    ELSE IF d2 = "empty" THEN d1
    ELSE IF d1 = "int64" /\ d2 = "int64" THEN "int64"
    ELSE "float64"

\* to_csv: the text written for a cell of a column of this dtype
FormatCell(dtype, c) == IF dtype = "float64" THEN float_format(c) ELSE c

\* pd.read_csv(file)['Wins'].dtype
WinsDtype(f) == ColDtype({f.rows[i].Wins : i \in 1..Len(f.rows)})

\* df.duplicated(subset=['Name', 'Division Title'], keep=False).any()
HasDuplicateFighter(rows) ==
    \E i, j \in 1..Len(rows) :
        /\ i # j
        /\ rows[i].Name = rows[j].Name
        /\ rows[i].Division = rows[j].Division

\* validate_data: "ok", or the reason it returns (False, message)
validate_data(df) ==
    IF df.rows = << >> THEN "empty"
    ELSE IF ~({"Name", "Division Title"} \subseteq df.cols) THEN "missing_columns"
    ELSE IF HasDuplicateFighter(df.rows) THEN "duplicate"
    ELSE "ok"

\* set(df['Name'].unique())
NameSet(f) == IF f.kind = "csv" /\ "Name" \in f.cols
              THEN {f.rows[i].Name : i \in 1..Len(f.rows)}
              ELSE {}

\* Mutant of drop_duplicates: every row stays
keep_duplicates(rows) == rows

\* DataFrame.drop_duplicates(): the first of every group of equal rows stays
RECURSIVE drop_duplicates(_)
drop_duplicates(rows) ==
    IF rows = << >> THEN << >>
    ELSE LET init == drop_duplicates(SubSeq(rows, 1, Len(rows) - 1))
             last == rows[Len(rows)]
         IN  IF \E i \in 1..Len(init) : init[i] = last
             THEN init
             ELSE Append(init, last)

\* Mutant of PurgedRows: the rows of the fighters the latest file has too
PurgedRowsInverted(living_data, latest_data) ==
    LET keep(r) == r.Name \in NameSet(latest_data)
    IN  SelectSeq(living_data.rows, keep)

\* living_data[living_data['Name'].isin(purged_fighters)]
PurgedRows(living_data, latest_data) ==
    LET purged_fighters == NameSet(living_data) \ NameSet(latest_data)
        keep(r) == r.Name \in purged_fighters
    IN  SelectSeq(living_data.rows, keep)

\* Mutant of CombinedData: the purged rows are not concatenated
CombinedLatestOnly(living_data, latest_data) ==
    Csv(latest_data.cols, latest_data.rows)

\* Mutant of CombinedData: every living row is concatenated, purged or not
CombinedEveryLivingRow(living_data, latest_data) ==
    Csv(latest_data.cols \cup living_data.cols,
        latest_data.rows \o living_data.rows)

\* pd.concat([latest_data, purged_data]) or latest_data.copy(), as to_csv
\* writes it: purged_data has the dtypes of living_data
CombinedData(living_data, latest_data) ==
    LET purged == PurgedRows(living_data, latest_data)
        dtype == CommonDtype(WinsDtype(latest_data),
                             IF purged # << >> THEN WinsDtype(living_data)
                                               ELSE "empty")
        rows == latest_data.rows \o purged
        written == [i \in 1..Len(rows) |->
                       [rows[i] EXCEPT !.Wins = FormatCell(dtype, @)]]
    IN  IF purged # << >>
        THEN Csv(latest_data.cols \cup living_data.cols, written)
        ELSE Csv(latest_data.cols, written)

Max0(n) == IF n < 0 THEN 0 ELSE n

\* ------------------------------------------------------------------------
\* Current reconciler: merge_ufc_data
\* ------------------------------------------------------------------------
\* result_stats as initialised on entry; outcome tells a returned report from
\* an exception that left the function.
result_stats(dry_run) ==
    [outcome |-> "returned", status |-> "failed",
     previous_records |-> 0, new_records |-> 0, total_records |-> 0,
     new_unique_records |-> 0, preserved_records |-> 0,
     error |-> "none", backup_created |-> "none", dry_run |-> dry_run]

NoResult == [result_stats(FALSE) EXCEPT !.outcome = "none", !.status = "none"]

Raised(dry_run) ==
    [result_stats(dry_run) EXCEPT !.outcome = "raised", !.status = "none"]

Out(L, B, res) == [living |-> L, backupFile |-> B, result |-> res]

\* Mutant of FirstRun: a dry run does not read the latest file and reports
\* nothing counted
FirstRunDryUncounted(L, N, B, dry_run) ==
    IF N.kind = "absent"
    THEN Out(L, B, [result_stats(dry_run) EXCEPT !.error = "latest_not_found"])
    ELSE IF dry_run
    THEN Out(L, B, [result_stats(dry_run) EXCEPT !.status = "success"])
    ELSE IF N.kind = "corrupt"
    THEN Out(N, B, Raised(dry_run))
    ELSE Out(N, B,
             [result_stats(dry_run) EXCEPT
                 !.status = "success",
                 !.new_records = Len(N.rows),
                 !.total_records = Len(N.rows),
                 !.new_unique_records = Len(N.rows)])

\* Mutant of FirstRun: the latest file is validated before it is copied
FirstRunValidated(L, N, B, dry_run) ==
    IF N.kind = "absent"
    THEN Out(L, B, [result_stats(dry_run) EXCEPT !.error = "latest_not_found"])
    ELSE IF N.kind = "corrupt"
    THEN Out(L, B, [result_stats(dry_run) EXCEPT !.error = "exception"])
    ELSE IF validate_data(N) # "ok"
    THEN Out(L, B, [result_stats(dry_run) EXCEPT !.error = validate_data(N)])
    ELSE Out(IF dry_run THEN L ELSE N, B,
             [result_stats(dry_run) EXCEPT
                 !.status = "success",
                 !.new_records = Len(N.rows),
                 !.total_records = Len(N.rows),
                 !.new_unique_records = Len(N.rows)])

\* Lines 92-110: the living file does not exist.  The copy comes first; the
\* read of the latest file that counts its records is outside any try block.
FirstRun(L, N, B, dry_run) ==
    IF N.kind = "absent"
    THEN Out(L, B, [result_stats(dry_run) EXCEPT !.error = "latest_not_found"])
    ELSE LET copied == IF dry_run THEN L ELSE N
         IN  IF N.kind = "corrupt"
             THEN Out(copied, B, Raised(dry_run))
             ELSE Out(copied, B,
                      [result_stats(dry_run) EXCEPT
                          !.status = "success",
                          !.new_records = Len(N.rows),
                          !.total_records = Len(N.rows),
                          !.new_unique_records = Len(N.rows)])

\* Mutant of BackupWritten: a backup of today is overwritten
BackupRewritten(B, backup, dry_run) == backup /\ ~dry_run

\* Mutant of BackupWritten: the backup is written on a dry run too
BackupWrittenOnDryRun(B, backup, dry_run) == backup /\ B.kind = "absent"

\* Lines 112-126: the dated backup, written once a day.
BackupWritten(B, backup, dry_run) == backup /\ ~dry_run /\ B.kind = "absent"

\* Mutant of BackupCreated: every backed-up run reports a backup
BackupCreatedEveryRun(B, backup, dry_run) ==
    IF backup /\ ~dry_run THEN "created"
    ELSE IF backup /\ dry_run THEN "would"
    ELSE "none"

\* Lines 121 and 126: result_stats['backup_created']
BackupCreated(B, backup, dry_run) ==
    IF BackupWritten(B, backup, dry_run) THEN "created"
    ELSE IF backup /\ dry_run THEN "would"
    ELSE "none"

\* Lines 161-220: the merge proper, on two frames that have a Name column.
MergeFrames(L, N, B, rs, dry_run) ==
    LET purged_data == PurgedRows(L, N)
        combined == CombinedData(L, N)
        deduped == Csv(combined.cols, drop_duplicates(combined.rows))
        after_count == Len(deduped.rows)
        new_unique == Max0(after_count - Len(L.rows))
    IN  Out(IF dry_run THEN L ELSE deduped, B,
            [rs EXCEPT !.status = "success",
                       !.preserved_records = Len(purged_data),
                       !.total_records = after_count,
                       !.new_unique_records = new_unique])

\* Lines 112-236: the living file exists.
GeneralCase(L, N, B0, backup, force, dry_run) ==
    LET B == IF BackupWritten(B0, backup, dry_run) THEN L ELSE B0
        rs0 == [result_stats(dry_run) EXCEPT
                   !.backup_created = BackupCreated(B0, backup, dry_run)]
    IN  IF L.kind = "corrupt"
        THEN Out(L, B, [rs0 EXCEPT !.error = "exception"])
        ELSE
        LET rs1 == [rs0 EXCEPT !.previous_records = Len(L.rows)]
        IN  IF validate_data(L) # "ok" /\ ~force
            THEN Out(L, B, [rs1 EXCEPT !.error = validate_data(L)])
            ELSE IF N.kind = "absent"
            THEN Out(L, B, [rs1 EXCEPT !.status = "skipped",
                                       !.error = "latest_not_found"])
            ELSE IF N.kind = "corrupt"
            THEN Out(L, B, [rs1 EXCEPT !.error = "exception"])
            ELSE
            LET rs2 == [rs1 EXCEPT !.new_records = Len(N.rows)]
            IN  IF validate_data(N) # "ok" /\ ~force
                THEN Out(L, B, [rs2 EXCEPT !.error = validate_data(N)])
                ELSE IF "Name" \notin L.cols \/ "Name" \notin N.cols
                THEN Out(L, B, [rs2 EXCEPT !.error = "exception"])
                ELSE MergeFrames(L, N, B, rs2, dry_run)

merge_ufc_data(L, N, B, backup, force, dry_run) ==
    IF L.kind = "absent"
    THEN FirstRun(L, N, B, dry_run)
    ELSE GeneralCase(L, N, B, backup, force, dry_run)

\* ------------------------------------------------------------------------
\* Composite-key reconciler: data universe
\* ------------------------------------------------------------------------
\* Every file has the columns Player, Date, Opponent and one data column,
\* Stat; Player, Date and Opponent are never empty.  Two identities, the same
\* player on two dates; the first has a Stat cell that is empty, the zero
\* token or a value (SpecCK has a second value and the Result column).
CKRows ==
    [Player : {"A"}, Date : {1}, Opponent : {"O"}, Stat : {"", "0", "5"}]
        \cup [Player : {"A"}, Date : {2}, Opponent : {"O"}, Stat : {"5"}]

CKCols == {"Player", "Date", "Opponent", "Stat"}

CKFiles == {Absent} \cup {Csv(CKCols, r) : r \in SeqUpTo(CKRows, MaxRows)}

\* ------------------------------------------------------------------------
\* Composite-key reconciler: merge_ufc_data
\* ------------------------------------------------------------------------
\* Player + '|' + Date.astype(str) + '|' + Opponent
composite_key(r) == <<r.Player, r.Date, r.Opponent>>

KeySet(f) == {composite_key(f.rows[i]) : i \in 1..Len(f.rows)}

\* Mutant of records_to_add: new records are told by the player alone
records_to_add_by_player(living_data, latest_data) ==
    LET players == {living_data.rows[i].Player : i \in 1..Len(living_data.rows)}
        isin(r) == r.Player \notin players
    IN  SelectSeq(latest_data.rows, isin)

\* latest_data[latest_data['composite_key'].isin(only_in_latest)]
records_to_add(living_data, latest_data) ==
    LET only_in_latest == KeySet(latest_data) \ KeySet(living_data)
        isin(r) == composite_key(r) \in only_in_latest
    IN  SelectSeq(latest_data.rows, isin)

\* latest_records_dict[key]: iterrows() overwrites, the last row of a key stays
latest_record(latest_data, key) ==
    LET idx == {i \in 1..Len(latest_data.rows) :
                    composite_key(latest_data.rows[i]) = key}
        last == CHOOSE i \in idx : \A j \in idx : j <= i
    IN  latest_data.rows[last]

\* pd.read_csv(file)['Stat'].dtype
StatDtype(f) == ColDtype({f.rows[i].Stat : i \in 1..Len(f.rows)})

\* pd.isna(cell): an empty cell is read as NaN
IsNa(v) == v = ""

\* str(cell).strip() of a cell of a column of this dtype: NaN prints as
\* 'nan', a float64 value with its decimal point
StrStrip(dtype, v) == IF v = "" THEN "nan" ELSE FormatCell(dtype, v)

\* Lines 107-116: whether the latest cell replaces the living cell
update_cell(living_cell, latest_cell, living_dtype, latest_dtype) ==
    LET latest_value == StrStrip(latest_dtype, latest_cell)
        living_value == StrStrip(living_dtype, living_cell)
    IN  \/ /\ (living_value = "" \/ living_value = "0" \/ IsNa(living_cell))
           /\ (latest_value # "" /\ latest_value # "0" /\ ~IsNa(latest_cell))
        \/ /\ latest_value # living_value
           /\ latest_value # "" /\ latest_value # "0" /\ ~IsNa(latest_cell)

\* Lines 97-119 for one row of merged_data: update_needed.  Stat is the only
\* data column.
update_needed(row, latest_data, common_keys, merged_dtype) ==
    /\ composite_key(row) \in common_keys
    /\ update_cell(row.Stat, latest_record(latest_data, composite_key(row)).Stat,
                   merged_dtype, StatDtype(latest_data))

\* Lines 86-87, 97-119 for one row of merged_data: the row after the loop.
\* data_columns leaves out Player, Date, Opponent, Event and Result, so no
\* other cell than Stat is assigned.
updated_row(row, latest_data, common_keys, merged_dtype) ==
    IF update_needed(row, latest_data, common_keys, merged_dtype)
    THEN [row EXCEPT !.Stat = latest_record(latest_data, composite_key(row)).Stat]
    ELSE row

\* sort_values(by=['Player', 'Date'], ascending=[True, False]): a stable sort;
\* players are compared by PlayerRank
PlayerRank(p) == IF p = "A" THEN 1 ELSE 2

SortsBefore(r1, r2) ==
    \/ PlayerRank(r1.Player) < PlayerRank(r2.Player)
    \/ PlayerRank(r1.Player) = PlayerRank(r2.Player) /\ r1.Date > r2.Date

RECURSIVE InsertSorted(_, _)
InsertSorted(sorted, r) ==
    IF sorted = << >> THEN <<r>>
    ELSE IF SortsBefore(r, sorted[Len(sorted)])
         THEN Append(InsertSorted(SubSeq(sorted, 1, Len(sorted) - 1), r),
                     sorted[Len(sorted)])
         ELSE Append(sorted, r)

RECURSIVE sort_values(_)
sort_values(rows) ==
    IF rows = << >> THEN << >>
    ELSE InsertSorted(sort_values(SubSeq(rows, 1, Len(rows) - 1)), rows[Len(rows)])

CKResult(outcome, value, updated) ==
    [outcome |-> outcome, value |-> value, updated_count |-> updated]

\* Lines 51-137: both files read.  merged_dtype is the dtype of Stat in
\* merged_data after the concat of line 79; a value assigned by line 118 is
\* cast to it, and to_csv writes every cell of the column in it.
CKMergeFrames(L, N, B) ==
    LET common_keys == KeySet(L) \cap KeySet(N)
        added == records_to_add(L, N)
        merged == L.rows \o added
        merged_dtype == CommonDtype(StatDtype(L),
                                    IF added # << >> THEN StatDtype(N) ELSE "empty")
        updated == [i \in 1..Len(merged) |->
                       updated_row(merged[i], N, common_keys, merged_dtype)]
        written == [i \in 1..Len(updated) |->
                       [updated[i] EXCEPT !.Stat = FormatCell(merged_dtype, @)]]
        updated_count == Cardinality({i \in 1..Len(merged) :
                            update_needed(merged[i], N, common_keys, merged_dtype)})
    IN  Out(Csv(L.cols \cup N.cols, sort_values(written)), B,
            CKResult("returned", TRUE, updated_count))

\* Lines 9-137
ck_merge_ufc_data(L, N, B0, backup) ==
    IF L.kind = "absent"
    THEN IF N.kind = "absent"
         THEN Out(L, B0, CKResult("returned", FALSE, 0))
         ELSE Out(N, B0, CKResult("returned", TRUE, 0))
    ELSE LET B == IF backup THEN L ELSE B0
         IN  IF N.kind = "absent"
             THEN Out(L, B, CKResult("raised", FALSE, 0))
             ELSE CKMergeFrames(L, N, B)

\* ------------------------------------------------------------------------
\* State
\* ------------------------------------------------------------------------
VARIABLES
    living,      \* <type>_living.csv
    latest,      \* <type>_latest.csv
    backupFile,  \* <type>_living_<today>.csv
    call,        \* the last call of merge_ufc_data: its flags
    before,      \* the three files as that call found them
    result,      \* what that call returned
    script,      \* which postscrapemerge.py the directory is run with
    dir,         \* process_all_files: the files of every dataset type
    results,     \* process_all_files: its arguments and what it returned
    pc,          \* merge_ufc_data run step by step: the next step
    mem,         \* merge_ufc_data run step by step: its local frames
    datasets,    \* compare_datasets: the frames load_datasets returned
    master,      \* compare_datasets: the output file of create_master_file
    success_count,  \* ESPNFighterScraper.success_count
    failure_count,  \* ESPNFighterScraper.failure_count
    threads,     \* scrape_fighters: the worker threads of the executor
    work_queue,  \* scrape_fighters: the fighters mapped, how many are taken
    request      \* UFCScraper / UFCFighterPipeline: one _make_request call

vars == <<living, latest, backupFile, call, before, result, script, dir, results,
          pc, mem, datasets, master, success_count, failure_count, threads,
          work_queue, request>>

\* The state of the scrapers and of compare_datasets
toolVars == <<datasets, master, success_count, failure_count, threads,
              work_queue, request>>

\* The state of the reconcilers
reconcilerVars == <<living, latest, backupFile, call, before, result, dir,
                    results, pc, mem>>

NoCall == [op |-> "none", backup |-> FALSE, force |-> FALSE, dry_run |-> FALSE]

Snapshot(L, N, B) == [living |-> L, latest |-> N, backupFile |-> B]

NoBefore == Snapshot(Absent, Absent, Absent)

\* No frame read yet
NoMem == [living_data |-> Absent, latest_data |-> Absent,
          combined_data |-> Absent, stopped_at |-> "none"]

\* DATA_TYPES
DATA_TYPES == <<"ground_data", "clinch_data", "striking_data">>

TypeSet == {DATA_TYPES[i] : i \in 1..Len(DATA_TYPES)}

\* The directory before anything is scraped: no file of any type
NoDir == [t \in TypeSet |-> Snapshot(Absent, Absent, Absent)]

\* process_all_files not called yet
NoResults ==
    [outcome |-> "none", backup |-> FALSE, force |-> FALSE, dry_run |-> FALSE,
     types |-> << >>, todo |-> << >>, attempted |-> << >>,
     success |-> << >>, failed |-> << >>, skipped |-> << >>,
     stats |-> << >>, before |-> NoDir]

\* No scraper constructed, no _make_request call
NoRequest ==
    [owner |-> "none", max_retries |-> 0, cloudscraper_session |-> FALSE,
     use_undetected |-> FALSE, driver |-> "none", retries |-> 0,
     attempts |-> 0, at |-> "idle", returned |-> "nothing"]

\* Nothing loaded by compare_datasets
MasterIdle ==
    /\ datasets = << >>
    /\ master = Absent

\* No list of fighters handed to an executor
NoQueue == [fighters |-> << >>, taken |-> 0, running |-> FALSE]

\* No ESPNFighterScraper constructed
ScrapeIdle ==
    /\ success_count = 0
    /\ failure_count = 0
    /\ threads = << >>
    /\ work_queue = NoQueue

ToolsIdle ==
    /\ MasterIdle
    /\ ScrapeIdle
    /\ request = NoRequest

\* No reconciler run, no file of the reconcilers
ReconcilerIdle ==
    /\ living = Absent
    /\ latest = Absent
    /\ backupFile = Absent
    /\ call = NoCall
    /\ before = NoBefore
    /\ result = NoResult
    /\ dir = NoDir
    /\ results = NoResults
    /\ pc = "idle"
    /\ mem = NoMem

\* Any living file and any latest file of the bounded universe, no backup of
\* today yet, nothing called yet.
Init ==
    /\ \/ script = "current" /\ living \in Files /\ latest \in Files
       \/ script = "composite" /\ living \in CKFiles /\ latest \in CKFiles
    /\ backupFile = Absent
    /\ call = NoCall
    /\ before = NoBefore
    /\ result = NoResult
    /\ dir = NoDir
    /\ results = NoResults
    /\ pc = "idle"
    /\ mem = NoMem
    /\ ToolsIdle

\* One call of merge_ufc_data(living_file, latest_file, backup, force, dry_run)
MergeUfcData(backup, force, dry_run) ==
    LET out == merge_ufc_data(living, latest, backupFile, backup, force, dry_run)
    IN  /\ script = "current"
        /\ living' = out.living
        /\ backupFile' = out.backupFile
        /\ result' = out.result
        /\ call' = [op |-> "merge", backup |-> backup, force |-> force,
                    dry_run |-> dry_run]
        /\ before' = Snapshot(living, latest, backupFile)
        /\ UNCHANGED <<latest, script, dir, results, pc, mem, toolVars>>

\* One call of the composite-key merge_ufc_data(living_file, latest_file, backup)
CKMergeUfcData(backup) ==
    LET out == ck_merge_ufc_data(living, latest, backupFile, backup)
    IN  /\ script = "composite"
        /\ living' = out.living
        /\ backupFile' = out.backupFile
        /\ result' = out.result
        /\ call' = [op |-> "merge", backup |-> backup, force |-> FALSE,
                    dry_run |-> FALSE]
        /\ before' = Snapshot(living, latest, backupFile)
        /\ UNCHANGED <<latest, script, dir, results, pc, mem, toolVars>>

\* Runs of merge_ufc_data, with any flags, on one pair of files.
Next ==
    \/ \E backup, force, dry_run \in BOOLEAN : MergeUfcData(backup, force, dry_run)
    \/ \E backup \in BOOLEAN : CKMergeUfcData(backup)

Spec == Init /\ [][Next]_vars

\* ------------------------------------------------------------------------
\* Sequences of scrapes and merges on one dataset type
\* ------------------------------------------------------------------------
\* Bound: the number of data rows of the files SpecSeq draws from SeqRows.
MaxSeqRows == 1

SeqRows ==
    {[Name |-> "A", Division |-> "X", Wins |-> "5"],
     [Name |-> "A", Division |-> "X", Wins |-> ""],
     [Name |-> "B", Division |-> "X", Wins |-> "5"]}

\* The latest files of SpecSeq: none, an unreadable one, one without the Name
\* column, one with a duplicated fighter, and every file of up to MaxSeqRows
\* rows of SeqRows.  Few enough that any number of scrapes and runs can
\* follow one another.
SeqFiles ==
    {Absent, Corrupt,
     Csv({"Division Title", "Wins"}, <<[Name |-> "", Division |-> "X", Wins |-> "5"]>>),
     Csv(AllCols, <<[Name |-> "A", Division |-> "X", Wins |-> "5"],
                    [Name |-> "A", Division |-> "X", Wins |-> ""]>>)}
        \cup {Csv(AllCols, r) : r \in SeqUpTo(SeqRows, MaxSeqRows)}

\* The next latest file is put in place, or the old one removed, between two
\* runs (outside the reconciler).
NewScrape(f) ==
    /\ latest' = f
    /\ call' = NoCall
    /\ before' = NoBefore
    /\ result' = NoResult
    /\ UNCHANGED <<living, backupFile, script, dir, results, pc, mem, toolVars>>

\* Nothing merged yet: no living file, no backup.
InitSeq ==
    /\ script = "current"
    /\ living = Absent
    /\ latest \in SeqFiles
    /\ backupFile = Absent
    /\ call = NoCall
    /\ before = NoBefore
    /\ result = NoResult
    /\ dir = NoDir
    /\ results = NoResults
    /\ pc = "idle"
    /\ mem = NoMem
    /\ ToolsIdle

\* Midnight: datetime.now().strftime("%Y%m%d") names a backup file that does
\* not exist yet.
NewDay ==
    /\ Exists(backupFile)
    /\ backupFile' = Absent
    /\ call' = NoCall
    /\ before' = NoBefore
    /\ result' = NoResult
    /\ UNCHANGED <<living, latest, script, dir, results, pc, mem, toolVars>>

NextSeq ==
    \/ \E backup, force, dry_run \in BOOLEAN : MergeUfcData(backup, force, dry_run)
    \/ \E f \in SeqFiles : NewScrape(f)
    \/ NewDay

SpecSeq == InitSeq /\ [][NextSeq]_vars

\* ------------------------------------------------------------------------
\* process_all_files: one batch over the dataset types of a directory
\* ------------------------------------------------------------------------
\* The files of one type when the first batch starts: nothing there; a first
\* run on a good or on an unreadable latest file; a living file with fighter
\* A and a latest file that has fighter B, is unreadable, or has no rows.
FighterFile(n) == Csv(AllCols, <<[Name |-> n, Division |-> "X", Wins |-> "5"]>>)

BatchFiles ==
    {Snapshot(Absent, Absent, Absent),
     Snapshot(Absent, FighterFile("B"), Absent),
     Snapshot(Absent, Corrupt, Absent),
     Snapshot(FighterFile("A"), FighterFile("B"), Absent),
     Snapshot(FighterFile("A"), Corrupt, Absent),
     Snapshot(FighterFile("A"), Csv(AllCols, << >>), Absent)}

\* The values of the types argument: None (every type) or a list of types
TypeLists ==
    {<<"ground_data", "clinch_data", "striking_data">>,
     <<"clinch_data">>,
     <<"striking_data", "ground_data">>}

\* Mutant of SkippedEntry: the entry carries no error
SkippedEntryNoError == [status |-> "skipped", error |-> "none"]

\* Lines 279-283: the stats entry of a type without a latest file
SkippedEntry == [status |-> "skipped", error |-> "latest_not_found"]

\* Lines 270-275: the list a result goes to
ListOf(status) ==
    IF status = "success" THEN "success"
    ELSE IF status = "skipped" THEN "skipped"
    ELSE "failed"

\* Mutant of FilesAfter: the latest file is consumed by the merge
FilesAfterMove(f, out) == Snapshot(out.living, Absent, out.backupFile)

\* The files of a type after merge_ufc_data(living_file, latest_file, ...):
\* living_file and the dated backup are the only paths it writes (lines 101,
\* 119, 212); latest_file is only read (lines 101, 107, 149).
FilesAfter(f, out) == Snapshot(out.living, f.latest, out.backupFile)

\* Lines 251-260: process_all_files(backup, force, dry_run, types) is called
\* and is about to enter its loop.
ProcessAllFiles(backup, force, dry_run, types) ==
    /\ results.outcome # "running"
    /\ results' = [NoResults EXCEPT !.outcome = "running",
                                    !.backup = backup, !.force = force,
                                    !.dry_run = dry_run, !.types = types,
                                    !.todo = types, !.before = dir]
    /\ UNCHANGED <<living, latest, backupFile, call, before, result, script, dir,
                   pc, mem, toolVars>>

\* Lines 262-283: one pass of the loop.  An exception that leaves
\* merge_ufc_data leaves process_all_files too.
ProcessType ==
    /\ results.outcome = "running"
    /\ results.todo # << >>
    /\ LET data_type == Head(results.todo)
           f == dir[data_type]
           out == merge_ufc_data(f.living, f.latest, f.backupFile,
                                 results.backup, results.force, results.dry_run)
           tried == [results EXCEPT !.attempted = Append(@, data_type),
                                    !.todo = Tail(@)]
       IN  IF Exists(f.latest)
           THEN /\ dir' = [dir EXCEPT ![data_type] = FilesAfter(f, out)]
                /\ results' =
                      IF out.result.outcome = "raised"
                      THEN [tried EXCEPT !.outcome = "raised"]
                      ELSE [tried EXCEPT
                               !.stats = Append(@, <<data_type, out.result>>),
                               ![ListOf(out.result.status)] = Append(@, data_type)]
           ELSE /\ dir' = dir
                /\ results' = [tried EXCEPT
                                  !.stats = Append(@, <<data_type, SkippedEntry>>),
                                  !.skipped = Append(@, data_type)]
    /\ UNCHANGED <<living, latest, backupFile, call, before, result, script, pc, mem, toolVars>>

\* Line 285: the loop is over, results is returned
ReturnResults ==
    /\ results.outcome = "running"
    /\ results.todo = << >>
    /\ results' = [results EXCEPT !.outcome = "returned"]
    /\ UNCHANGED <<living, latest, backupFile, call, before, result, script, dir,
                   pc, mem, toolVars>>

\* A directory where every type has any of the BatchFiles.
InitBatch ==
    /\ script = "current"
    /\ living = Absent
    /\ latest = Absent
    /\ backupFile = Absent
    /\ call = NoCall
    /\ before = NoBefore
    /\ result = NoResult
    /\ dir \in [TypeSet -> BatchFiles]
    /\ results = NoResults
    /\ pc = "idle"
    /\ mem = NoMem
    /\ ToolsIdle

NextBatch ==
    \/ \E backup, force, dry_run \in BOOLEAN, types \in TypeLists :
          ProcessAllFiles(backup, force, dry_run, types)
    \/ ProcessType
    \/ ReturnResults

SpecBatch == InitBatch /\ [][NextBatch]_vars

\* ------------------------------------------------------------------------
\* Composite-key reconciler on files that have the Result column too
\* ------------------------------------------------------------------------
\* Bound: the number of data rows of a file of SpecCK.
MaxCKRows == 2

\* Rows with the columns Player, Date, Opponent, Result and Stat.  The fight
\* A|1|O has every kind of Stat cell and, for one of them, two results; the
\* fight A|2|O has a Stat cell that is empty or a value, so that the Stat
\* column of a file without a repeated key can be float64.
CKWideRows ==
    [Player : {"A"}, Date : {1}, Opponent : {"O"}, Result : {"W"},
     Stat : {"", "0", "5", "6"}]
        \cup [Player : {"A"}, Date : {1}, Opponent : {"O"}, Result : {"L"},
              Stat : {"5"}]
        \cup [Player : {"A"}, Date : {2}, Opponent : {"O"}, Result : {"W"},
              Stat : {"", "5"}]

CKWideCols == {"Player", "Date", "Opponent", "Result", "Stat"}

CKWideFiles ==
    {Absent} \cup {Csv(CKWideCols, r) : r \in SeqUpTo(CKWideRows, MaxCKRows)}

InitCK ==
    /\ script = "composite"
    /\ living \in CKWideFiles
    /\ latest \in CKWideFiles
    /\ backupFile = Absent
    /\ call = NoCall
    /\ before = NoBefore
    /\ result = NoResult
    /\ dir = NoDir
    /\ results = NoResults
    /\ pc = "idle"
    /\ mem = NoMem
    /\ ToolsIdle

NextCK == \E backup \in BOOLEAN : CKMergeUfcData(backup)

SpecCK == InitCK /\ [][NextCK]_vars

\* ------------------------------------------------------------------------
\* merge_ufc_data step by step, with a process that can stop at any step
\* ------------------------------------------------------------------------
\* Mutant of StepLiving: the living file is rewritten with the latest rows
\* before the merged frame is computed
StepLivingEarly(at, L, N, combined_data, dry_run) ==
    IF at = "first_copy" /\ ~dry_run THEN N
    ELSE IF at = "merge" /\ ~dry_run THEN N
    ELSE IF at = "write" /\ ~dry_run THEN combined_data
    ELSE L

\* The living file after the step `at`: lines 101 and 212 are the two
\* places that write living_file.
StepLiving(at, L, N, combined_data, dry_run) ==
    IF at = "first_copy" /\ ~dry_run THEN N
    ELSE IF at = "write" /\ ~dry_run THEN combined_data
    ELSE L

Idle == pc \in {"idle", "done", "raised", "crashed"}

\* The frame shared by the steps: what a step leaves alone
StepFrame == UNCHANGED <<latest, call, before, script, dir, results, toolVars>>

\* Lines 72-89: merge_ufc_data is called
Call(backup, force, dry_run) ==
    /\ Idle
    /\ pc' = "check"
    /\ call' = [op |-> "steps", backup |-> backup, force |-> force,
                dry_run |-> dry_run]
    /\ before' = Snapshot(living, latest, backupFile)
    /\ result' = result_stats(dry_run)
    /\ mem' = NoMem
    /\ UNCHANGED <<living, latest, backupFile, script, dir, results, toolVars>>

\* Lines 92-98
CheckLiving ==
    /\ pc = "check"
    /\ living' = StepLiving(pc, living, latest, mem.combined_data, call.dry_run)
    /\ IF Exists(living)
       THEN pc' = "backup" /\ result' = result
       ELSE IF ~Exists(latest)
       THEN pc' = "done" /\ result' = [result EXCEPT !.error = "latest_not_found"]
       ELSE pc' = "first_copy" /\ result' = result
    /\ UNCHANGED <<backupFile, mem>>
    /\ StepFrame

\* Lines 100-104
FirstCopy ==
    /\ pc = "first_copy"
    /\ living' = StepLiving(pc, living, latest, mem.combined_data, call.dry_run)
    /\ pc' = "first_count"
    /\ UNCHANGED <<backupFile, mem, result>>
    /\ StepFrame

\* Lines 106-110
FirstCount ==
    /\ pc = "first_count"
    /\ living' = StepLiving(pc, living, latest, mem.combined_data, call.dry_run)
    /\ IF latest.kind = "corrupt"
       THEN pc' = "raised" /\ result' = Raised(call.dry_run)
       ELSE /\ pc' = "done"
            /\ result' = [result EXCEPT !.status = "success",
                                        !.new_records = Len(latest.rows),
                                        !.total_records = Len(latest.rows),
                                        !.new_unique_records = Len(latest.rows)]
    /\ UNCHANGED <<backupFile, mem>>
    /\ StepFrame

\* Lines 112-126
Backup ==
    /\ pc = "backup"
    /\ living' = StepLiving(pc, living, latest, mem.combined_data, call.dry_run)
    /\ backupFile' = IF BackupWritten(backupFile, call.backup, call.dry_run)
                     THEN living ELSE backupFile
    /\ result' = [result EXCEPT !.backup_created =
                      BackupCreated(backupFile, call.backup, call.dry_run)]
    /\ pc' = "read_living"
    /\ UNCHANGED mem
    /\ StepFrame

\* Lines 129-140
ReadLiving ==
    /\ pc = "read_living"
    /\ living' = StepLiving(pc, living, latest, mem.combined_data, call.dry_run)
    /\ IF living.kind = "corrupt"
       THEN /\ pc' = "done" /\ mem' = mem
            /\ result' = [result EXCEPT !.error = "exception"]
       ELSE /\ mem' = [mem EXCEPT !.living_data = living]
            /\ IF validate_data(living) # "ok" /\ ~call.force
               THEN /\ pc' = "done"
                    /\ result' = [result EXCEPT !.previous_records = Len(living.rows),
                                                !.error = validate_data(living)]
               ELSE /\ pc' = "read_latest"
                    /\ result' = [result EXCEPT !.previous_records = Len(living.rows)]
    /\ UNCHANGED backupFile
    /\ StepFrame

\* Lines 142-159
ReadLatest ==
    /\ pc = "read_latest"
    /\ living' = StepLiving(pc, living, latest, mem.combined_data, call.dry_run)
    /\ IF latest.kind = "absent"
       THEN /\ pc' = "done" /\ mem' = mem
            /\ result' = [result EXCEPT !.status = "skipped",
                                        !.error = "latest_not_found"]
       ELSE IF latest.kind = "corrupt"
       THEN /\ pc' = "done" /\ mem' = mem
            /\ result' = [result EXCEPT !.error = "exception"]
       ELSE /\ mem' = [mem EXCEPT !.latest_data = latest]
            /\ IF validate_data(latest) # "ok" /\ ~call.force
               THEN /\ pc' = "done"
                    /\ result' = [result EXCEPT !.new_records = Len(latest.rows),
                                                !.error = validate_data(latest)]
               ELSE /\ pc' = "merge"
                    /\ result' = [result EXCEPT !.new_records = Len(latest.rows)]
    /\ UNCHANGED backupFile
    /\ StepFrame

\* Lines 161-208: the merged frame is computed in memory
Merge ==
    /\ pc = "merge"
    /\ living' = StepLiving(pc, living, latest, mem.combined_data, call.dry_run)
    /\ IF "Name" \notin mem.living_data.cols \/ "Name" \notin mem.latest_data.cols
       THEN /\ pc' = "done" /\ mem' = mem
            /\ result' = [result EXCEPT !.error = "exception"]
       ELSE LET combined == CombinedData(mem.living_data, mem.latest_data)
            IN  /\ mem' = [mem EXCEPT !.combined_data =
                              Csv(combined.cols, drop_duplicates(combined.rows))]
                /\ result' = [result EXCEPT !.preserved_records =
                                 Len(PurgedRows(mem.living_data, mem.latest_data))]
                /\ pc' = "write"
    /\ UNCHANGED backupFile
    /\ StepFrame

\* Lines 210-215
Write ==
    /\ pc = "write"
    /\ living' = StepLiving(pc, living, latest, mem.combined_data, call.dry_run)
    /\ pc' = "stats"
    /\ UNCHANGED <<backupFile, mem, result>>
    /\ StepFrame

\* Lines 217-231
Stats ==
    /\ pc = "stats"
    /\ living' = StepLiving(pc, living, latest, mem.combined_data, call.dry_run)
    /\ result' = [result EXCEPT
                     !.status = "success",
                     !.total_records = Len(mem.combined_data.rows),
                     !.new_unique_records =
                         Max0(Len(mem.combined_data.rows) - Len(mem.living_data.rows))]
    /\ pc' = "done"
    /\ UNCHANGED <<backupFile, mem>>
    /\ StepFrame

\* The process is killed before its next step
Crash ==
    /\ ~Idle
    /\ pc' = "crashed"
    /\ mem' = [mem EXCEPT !.stopped_at = pc]
    /\ UNCHANGED <<living, backupFile, result>>
    /\ StepFrame

InitSteps ==
    /\ script = "current"
    /\ living \in SeqFiles
    /\ latest \in SeqFiles
    /\ backupFile = Absent
    /\ call = NoCall
    /\ before = NoBefore
    /\ result = NoResult
    /\ dir = NoDir
    /\ results = NoResults
    /\ pc = "idle"
    /\ mem = NoMem
    /\ ToolsIdle

NextSteps ==
    \/ \E backup, force, dry_run \in BOOLEAN : Call(backup, force, dry_run)
    \/ CheckLiving
    \/ FirstCopy
    \/ FirstCount
    \/ Backup
    \/ ReadLiving
    \/ ReadLatest
    \/ Merge
    \/ Write
    \/ Stats
    \/ Crash

SpecSteps == InitSteps /\ [][NextSteps]_vars

\* ------------------------------------------------------------------------
\* compare_datasets.py: create_master_file
\* ------------------------------------------------------------------------
\* A loaded dataset is a record [cols, rows, timestamp]: the frame read_csv
\* returned for a file that has the Player column, and the mtime of the file.
\* `datasets` holds them in the order of the dict load_datasets filled.  A row
\* is a record over Player and Stat; an empty Player cell is NaN.

\* Bound: the number of files the pattern matches.
MaxDatasets == 3

\* Bound: the number of data rows of a matched file.
MaxMasterRows == 2

\* Rows of a file with the columns Player and Stat
StatRows ==
    {[Player |-> "A", Stat |-> "5"],
     [Player |-> "B", Stat |-> "5"],
     [Player |-> "B", Stat |-> ""],
     [Player |-> "", Stat |-> "5"]}

\* Rows of a file with the Player column only
PlayerRows == [Player : {"", "A", "B"}, Stat : {""}]

\* load_datasets: the frames a file can give
Frames ==
    {[cols |-> {"Player", "Stat"}, rows |-> r] : r \in SeqUpTo(StatRows, MaxMasterRows)}
        \cup {[cols |-> {"Player"}, rows |-> r] : r \in SeqUpTo(PlayerRows, MaxMasterRows)}

\* os.path.getmtime of the files, in dict order: oldest first or newest first
Timestamps(n) == {[i \in 1..n |-> i], [i \in 1..n |-> n + 1 - i]}

\* set(df['Player'].unique()); NaN is one of its elements
Players(df) == {df.rows[i].Player : i \in 1..Len(df.rows)}

\* find_unique_fighters(datasets)
find_unique_fighters(ds) == UNION {Players(ds[i]) : i \in 1..Len(ds)}

\* analyze_datasets: score = fighters * columns * records
completeness_score(df) ==
    Cardinality(Players(df)) * Cardinality(df.cols) * Len(df.rows)

\* sorted(..., key=(completeness_score, timestamp), reverse=True): dataset i
\* comes before dataset j; the sort is stable, equal keys keep the dict order
RanksBefore(ds, i, j) ==
    LET si == completeness_score(ds[i])
        sj == completeness_score(ds[j])
    IN  \/ si > sj
        \/ si = sj /\ ds[i].timestamp > ds[j].timestamp
        \/ si = sj /\ ds[i].timestamp = ds[j].timestamp /\ i < j

\* base_file = sorted_results[0][0]
base_file(ds) ==
    CHOOSE i \in 1..Len(ds) : \A j \in 1..Len(ds) \ {i} : RanksBefore(ds, i, j)

\* df[df['Player'] == fighter]; NaN == NaN is False
fighter_records(df, fighter) ==
    LET keep(r) == r.Player = fighter /\ fighter # ""
    IN  SelectSeq(df.rows, keep)

\* Mutant of found_in: only the first dataset other than the base is searched
found_in_first(ds, base, fighter) ==
    LET others == {i \in 1..Len(ds) : i # base}
        first == CHOOSE i \in others : \A j \in others : i <= j
    IN  IF others # {} /\ fighter_records(ds[first], fighter) # << >>
        THEN first
        ELSE 0

\* Lines 225-234: the first dataset other than the base, in dict order, that
\* has records of the fighter; 0 when none has
found_in(ds, base, fighter) ==
    LET having == {i \in 1..Len(ds) :
                      i # base /\ fighter_records(ds[i], fighter) # << >>}
    IN  IF having = {} THEN 0
        ELSE CHOOSE i \in having : \A j \in having : i <= j

\* read_csv: the dtype of the Stat column of a frame, "none" without the column
DatasetDtype(df) ==
    IF "Stat" \in df.cols
    THEN ColDtype({df.rows[i].Stat : i \in 1..Len(df.rows)})
    ELSE "none"

\* pd.concat of two frames with rows: a column one frame lacks is filled with
\* NaN, an int64 column becomes float64 by that
ConcatDtype(d1, d2) ==
    IF d1 = "none" /\ d2 = "none" THEN "none"
    ELSE IF d1 = "none" \/ d2 = "none" THEN "float64"
    ELSE CommonDtype(d1, d2)

\* Line 232: master_df = pd.concat([master_df, fighter_records])
add_fighter(master_df, ds, base, fighter) ==
    LET i == found_in(ds, base, fighter)
    IN  IF i = 0 THEN master_df
        ELSE [cols |-> master_df.cols \cup ds[i].cols,
              rows |-> master_df.rows \o fighter_records(ds[i], fighter),
              dtype |-> ConcatDtype(master_df.dtype, DatasetDtype(ds[i]))]

\* Lines 224-234: the loop over missing_fighters, in the order `order`
RECURSIVE add_fighters(_, _, _, _)
add_fighters(master_df, ds, base, order) ==
    IF order = << >> THEN master_df
    ELSE add_fighters(add_fighter(master_df, ds, base, Head(order)),
                      ds, base, Tail(order))

\* Lines 217-218: all_fighters - base_fighters
missing_fighters(ds) == find_unique_fighters(ds) \ Players(ds[base_file(ds)])

\* The orders in which a set can be iterated
Orders(S) ==
    {q \in [1..Cardinality(S) -> S] :
        \A i, j \in 1..Cardinality(S) : i # j => q[i] # q[j]}

\* create_master_file(datasets, analyze_datasets(datasets),
\* find_unique_fighters(datasets), output_file): the file it writes, with
\* to_csv writing the Stat column in its dtype; no file when nothing is loaded
create_master_file(ds, order) ==
    IF ds = << >> THEN Absent
    ELSE LET base == base_file(ds)
             start == [cols |-> ds[base].cols, rows |-> ds[base].rows,
                       dtype |-> DatasetDtype(ds[base])]
             master_df == add_fighters(start, ds, base, order)
         IN  Csv(master_df.cols,
                 [i \in 1..Len(master_df.rows) |->
                     [master_df.rows[i] EXCEPT
                         !.Stat = FormatCell(master_df.dtype, @)]])

\* main with --create-master, lines 278-279, on the datasets loaded
CreateMasterFile ==
    /\ script = "compare_datasets"
    /\ datasets # << >>
    /\ \E order \in Orders(missing_fighters(datasets)) :
           master' = create_master_file(datasets, order)
    /\ UNCHANGED <<script, datasets, reconcilerVars, success_count,
                   failure_count, threads, work_queue, request>>

\* Any collection of loaded datasets, no master file written yet
InitMaster ==
    /\ script = "compare_datasets"
    /\ ReconcilerIdle
    /\ ScrapeIdle
    /\ request = NoRequest
    /\ master = Absent
    /\ \E n \in 1..MaxDatasets :
           \E frames \in [1..n -> Frames], stamps \in Timestamps(n) :
               datasets = [i \in 1..n |->
                              [cols |-> frames[i].cols, rows |-> frames[i].rows,
                               timestamp |-> stamps[i]]]

NextMaster == CreateMasterFile

SpecMaster == InitMaster /\ [][NextMaster]_vars

\* ------------------------------------------------------------------------
\* espn_fighter_scraper.py: scrape_fighters and its worker threads
\* ------------------------------------------------------------------------
\* executor.map(self.fetch_fighter_data, chunk) queues one call per fighter;
\* the worker threads of the ThreadPoolExecutor take them in order.  A thread
\* is a record [pc, fighter, counter, tmp].  `self.success_count += 1` and
\* `self.failure_count += 1` are a read of the attribute followed by a write
\* of the sum, with no lock around them: another thread can run in between.
\* The lists of the model are shorter than chunk_size (50), one chunk.

\* Bound: the number of fighters of the list.
MaxFighters == 3

\* Bound: max_workers of the scraper (main constructs it with 3).
MaxWorkers == 3

\* A worker thread with no call in hand
IdleThread == [pc |-> "idle", fighter |-> 0, counter |-> "none", tmp |-> 0]

\* The ways through fetch_fighter_data: the profile page is saved (line 154),
\* the search has no MMA fighter (line 136), a request or the parsing raises
\* (line 165)
Outcomes == {"saved", "no_fighter", "exception"}

\* The counter the call increments on this way
CounterOf(outcome) ==
    IF outcome = "saved" THEN "success_count" ELSE "failure_count"

\* Lines 220-234: scrape_fighters(fighters) maps the list on the executor
ScrapeFighters(fighters) ==
    /\ script = "espn_fighter_scraper"
    /\ work_queue = NoQueue
    /\ work_queue' = [fighters |-> fighters, taken |-> 0, running |-> TRUE]
    /\ UNCHANGED <<script, reconcilerVars, datasets, master, success_count,
                   failure_count, threads, request>>

\* A worker thread takes the next queued call
TakeFighter(t) ==
    /\ work_queue.running
    /\ threads[t].pc = "idle"
    /\ work_queue.taken < Len(work_queue.fighters)
    /\ work_queue' = [work_queue EXCEPT !.taken = @ + 1]
    /\ threads' = [threads EXCEPT
                      ![t] = [IdleThread EXCEPT
                                 !.pc = "fetch",
                                 !.fighter = work_queue.fighters[work_queue.taken + 1]]]
    /\ UNCHANGED <<script, reconcilerVars, datasets, master, success_count,
                   failure_count, request>>

\* Lines 112-153: fetch_fighter_data up to the increment of its way
FetchFighterData(t, outcome) ==
    /\ threads[t].pc = "fetch"
    /\ threads' = [threads EXCEPT ![t].pc = "load",
                                  ![t].counter = CounterOf(outcome)]
    /\ UNCHANGED <<script, reconcilerVars, datasets, master, success_count,
                   failure_count, work_queue, request>>

\* Lines 136, 154, 165: the read of `self.<counter> += 1`
LoadCounter(t) ==
    /\ threads[t].pc = "load"
    /\ threads' = [threads EXCEPT
                      ![t].pc = "store",
                      ![t].tmp = IF threads[t].counter = "success_count"
                                 THEN success_count ELSE failure_count]
    /\ UNCHANGED <<script, reconcilerVars, datasets, master, success_count,
                   failure_count, work_queue, request>>

\* `self.<counter> += 1`: the value written is the value read plus one
Incremented(current, tmp) == tmp + 1

\* Lines 136, 154, 165: the write of `self.<counter> += 1`; the call returns
StoreCounter(t) ==
    /\ threads[t].pc = "store"
    /\ IF threads[t].counter = "success_count"
       THEN /\ success_count' = Incremented(success_count, threads[t].tmp)
            /\ UNCHANGED failure_count
       ELSE /\ failure_count' = Incremented(failure_count, threads[t].tmp)
            /\ UNCHANGED success_count
    /\ threads' = [threads EXCEPT ![t] = IdleThread]
    /\ UNCHANGED <<script, reconcilerVars, datasets, master, work_queue, request>>

\* Line 229: the with block ends when every call has returned
Shutdown ==
    /\ work_queue.running
    /\ work_queue.taken = Len(work_queue.fighters)
    /\ \A t \in DOMAIN threads : threads[t].pc = "idle"
    /\ work_queue' = [work_queue EXCEPT !.running = FALSE]
    /\ UNCHANGED <<script, reconcilerVars, datasets, master, success_count,
                   failure_count, threads, request>>

\* A scraper constructed with max_workers > 1, counters at 0 (lines 37-38)
InitScrape ==
    /\ script = "espn_fighter_scraper"
    /\ ReconcilerIdle
    /\ MasterIdle
    /\ request = NoRequest
    /\ success_count = 0
    /\ failure_count = 0
    /\ work_queue = NoQueue
    /\ \E max_workers \in 2..MaxWorkers :
           threads = [t \in 1..max_workers |-> IdleThread]

NextScrape ==
    \/ \E n \in 1..MaxFighters : ScrapeFighters([i \in 1..n |-> i])
    \/ \E t \in DOMAIN threads :
           \/ TakeFighter(t)
           \/ \E outcome \in Outcomes : FetchFighterData(t, outcome)
           \/ LoadCounter(t)
           \/ StoreCounter(t)
    \/ Shutdown

SpecScrape == InitScrape /\ [][NextScrape]_vars

\* ------------------------------------------------------------------------
\* ufc_scraper.py and ufc_fighter_pipeline.py: _make_request
\* ------------------------------------------------------------------------
\* UFCScraper._make_request and UFCFighterPipeline._make_request are the same
\* code, as are the two _make_request_with_driver.  `request` is the scraper
\* and one call by a caller: owner, max_retries, cloudscraper_session (there
\* or None), use_undetected (with UNDETECTED_AVAILABLE), driver (None or
\* initialised), the retries argument of the innermost call, the number of
\* calls of _make_request made for the caller's call (the attempts), the
\* position in the innermost call, and what the caller got.

\* Bound: max_retries of the scraper (3 and 5 are the defaults).
MaxRetries == 3

\* What a step of _make_request leaves alone
RetryFrame ==
    UNCHANGED <<script, reconcilerVars, datasets, master, success_count,
                failure_count, threads, work_queue>>

\* The call is over: the value goes back through every recursive call
Return(value) == request' = [request EXCEPT !.at = "idle", !.returned = value]

\* Lines 226 and 228: `raise e` of the inner handler is caught by the outer
\* `except requests.exceptions.RequestException`
RaiseToHandler == request' = [request EXCEPT !.at = "handler"]

\* After the regular request failed: cloudscraper if there is a session
\* (line 209), else the driver if enabled (line 219), else raise e
AfterRegular ==
    IF request.cloudscraper_session
    THEN request' = [request EXCEPT !.at = "cloudscraper"]
    ELSE IF request.use_undetected
    THEN request' = [request EXCEPT !.at = "driver"]
    ELSE RaiseToHandler

\* A caller calls self._make_request(url): retries = 0, the first attempt
MakeRequest ==
    /\ script = "ufc_scraper"
    /\ request.at = "idle"
    /\ request' = [request EXCEPT !.at = "regular", !.retries = 0,
                                  !.attempts = 1, !.returned = "nothing"]
    /\ RetryFrame

\* Lines 197-206: rate limit, user agent, session.get and raise_for_status
RegularRequest(outcome) ==
    /\ request.at = "regular"
    /\ CASE outcome = "response" -> Return("response")
         [] outcome = "RequestException" -> AfterRegular
         [] outcome = "Exception" -> Return("Exception")
    /\ RetryFrame

\* Lines 209-216: cloudscraper_session.get; every exception is logged
Cloudscraper(outcome) ==
    /\ request.at = "cloudscraper"
    /\ IF outcome = "response" THEN Return("response")
       ELSE IF request.use_undetected
       THEN request' = [request EXCEPT !.at = "driver"]
       ELSE RaiseToHandler
    /\ RetryFrame

\* Line 222 with lines 237-269: return self._make_request_with_driver(url),
\* which returns None when the driver cannot be initialised or the page
\* load raises, and a MockResponse otherwise
MakeRequestWithDriver(initialised, loaded) ==
    /\ request.at = "driver"
    /\ IF request.driver = "none" /\ ~initialised
       THEN Return("None")
       ELSE request' = [request EXCEPT
                           !.driver = "initialised",
                           !.at = "idle",
                           !.returned = IF loaded THEN "response" ELSE "None"]
    /\ RetryFrame

\* Lines 228-235: the outer handler retries with retries + 1 or returns None
Handler ==
    /\ request.at = "handler"
    /\ IF request.retries < request.max_retries
       THEN request' = [request EXCEPT !.at = "regular", !.retries = @ + 1,
                                      !.attempts = @ + 1]
       ELSE Return("None")
    /\ RetryFrame

\* A scraper of either class, constructed, nothing requested yet
InitRetry ==
    /\ script = "ufc_scraper"
    /\ ReconcilerIdle
    /\ MasterIdle
    /\ ScrapeIdle
    /\ \E owner \in {"UFCScraper", "UFCFighterPipeline"},
          max_retries \in 0..MaxRetries,
          cloudscraper_session, use_undetected \in BOOLEAN :
           request = [NoRequest EXCEPT
                         !.owner = owner,
                         !.max_retries = max_retries,
                         !.cloudscraper_session = cloudscraper_session,
                         !.use_undetected = use_undetected]

NextRetry ==
    \/ MakeRequest
    \/ \E outcome \in {"response", "RequestException", "Exception"} :
           RegularRequest(outcome)
    \/ \E outcome \in {"response", "Exception"} : Cloudscraper(outcome)
    \/ \E initialised, loaded \in BOOLEAN :
           MakeRequestWithDriver(initialised, loaded)
    \/ Handler

SpecRetry == InitRetry /\ [][NextRetry]_vars

\* ------------------------------------------------------------------------
\* Claims
\* ------------------------------------------------------------------------
\* The last step was a call of the current reconciler / the composite-key one
Ran == script = "current" /\ call.op = "merge"

CKRan == script = "composite" /\ call.op = "merge"

RowSet(f) == {f.rows[i] : i \in 1..Len(f.rows)}

\* C1: current reconciler, union preservation.  When a non-dry-run merge on
\* an existing living file ends with status 'success', every Name of the
\* living file and of the latest file as the run found them is a Name of the
\* living file it wrote.
C1_UnionPreservation ==
    (Ran /\ ~call.dry_run /\ Exists(before.living) /\ result.status = "success")
        => (NameSet(before.living) \cup NameSet(before.latest)) \subseteq NameSet(living)

\* A successful run that had a purged fighter to keep and a new one to add.
C1_Witness ==
    /\ Ran /\ ~call.dry_run /\ Exists(before.living) /\ result.status = "success"
    /\ NameSet(before.living) \ NameSet(before.latest) # {}
    /\ NameSet(before.latest) \ NameSet(before.living) # {}
    /\ NameSet(living) = {"A", "B"}

\* C2: never drop history over time.  Over any sequence of scrapes and runs,
\* with any flags and any outcome, a Name of the living file stays a Name of
\* the living file: no step removes one.
C2_NeverDropHistory == [][NameSet(living) \subseteq NameSet(living')]_vars

\* A later run, on a scrape without fighter A, that kept A and added B.
C2_Witness ==
    /\ Ran /\ ~call.dry_run /\ result.status = "success"
    /\ before.living.kind = "csv" /\ before.latest.kind = "csv"
    /\ "A" \in NameSet(before.living) /\ "A" \notin NameSet(before.latest)
    /\ "B" \in NameSet(before.latest) /\ "B" \notin NameSet(before.living)
    /\ NameSet(living) = {"A", "B"}

\* C3: composite-key reconciler, union preservation.  For every existing
\* living file and every latest file the run writes a living file, and every
\* Player|Date|Opponent key of either input is a key of the file written.
C3_CKUnionPreservation ==
    (CKRan /\ before.living.kind = "csv" /\ before.latest.kind = "csv")
        => /\ result.outcome = "returned" /\ result.value
           /\ living.kind = "csv"
           /\ (KeySet(before.living) \cup KeySet(before.latest)) \subseteq KeySet(living)

\* A run with a key only in the living file and a key only in the latest file.
C3_Witness ==
    /\ CKRan /\ before.living.kind = "csv" /\ before.latest.kind = "csv"
    /\ KeySet(before.living) \ KeySet(before.latest) # {}
    /\ KeySet(before.latest) \ KeySet(before.living) # {}
    /\ Cardinality(KeySet(living)) = 2

\* C4: current reconciler, idempotence.  After a successful non-dry-run merge
\* on an existing living file, the same call again on the same latest file
\* leaves the same set of rows and reports the same total_records and
\* preserved_records, and new_unique_records = 0.
C4_Idempotence ==
    (Ran /\ ~call.dry_run /\ Exists(before.living) /\ result.status = "success")
        => LET again == merge_ufc_data(living, latest, backupFile,
                                       call.backup, call.force, FALSE)
           IN  /\ RowSet(again.living) = RowSet(living)
               /\ again.result.status = "success"
               /\ again.result.total_records = result.total_records
               /\ again.result.preserved_records = result.preserved_records
               /\ again.result.new_unique_records = 0

\* C5: composite-key reconciler, idempotence.  For every living file and
\* latest file, merging the latest file again into the result of the merge
\* changes no row and no field and updates no record.
C5_CKIdempotence ==
    (CKRan /\ before.living.kind = "csv" /\ before.latest.kind = "csv")
        => LET again == ck_merge_ufc_data(living, latest, backupFile, call.backup)
           IN  /\ again.living = living
               /\ again.result.updated_count = 0

\* C6: purge preservation.  For every identity of the living file that the
\* latest file lacks (Name in the current reconciler, Player|Date|Opponent in
\* the composite-key one), the living file written by a successful merge has
\* exactly the rows of that identity that the living file had before, every
\* field as the file held it.
C6_PurgePreservation ==
    /\ (Ran /\ ~call.dry_run /\ Exists(before.living) /\ result.status = "success")
          => \A n \in NameSet(before.living) \ NameSet(before.latest) :
                {r \in RowSet(living) : r.Name = n}
                    = {r \in RowSet(before.living) : r.Name = n}
    /\ (CKRan /\ before.living.kind = "csv" /\ before.latest.kind = "csv"
              /\ result.outcome = "returned")
          => \A k \in KeySet(before.living) \ KeySet(before.latest) :
                {r \in RowSet(living) : composite_key(r) = k}
                    = {r \in RowSet(before.living) : composite_key(r) = k}

C8_DryRunMutatesNothing ==
    (Ran /\ call.dry_run)
        => /\ living = before.living
           /\ latest = before.latest
           /\ backupFile = before.backupFile

\* A dry run with backup=True that reports success and would have added a
\* fighter and written today's backup.
C8_Witness ==
    /\ Ran /\ call.dry_run /\ call.backup
    /\ result.status = "success" /\ result.new_unique_records > 0
    /\ before.living.kind = "csv" /\ ~Exists(before.backupFile)
    /\ living = before.living /\ ~Exists(backupFile)

\* validate_data returns (False, ...) on the frame of this file
Invalid(f) == f.kind = "csv" /\ validate_data(f) # "ok"

\* C9: a validation failure does not mutate.  When the living or the latest
\* data fails validate_data and force is False, the call returns a status
\* other than 'success' with an error, and the living file is neither
\* created nor modified; the first run on an invalid latest file included.
C9_ValidationFailureDoesNotMutate ==
    (Ran /\ ~call.force /\ (Invalid(before.living) \/ Invalid(before.latest)))
        => /\ result.outcome = "returned"
           /\ result.status # "success"
           /\ result.error # "none"
           /\ living = before.living

\* C10: duplicated fighters are a warning.  When the living and the latest
\* data are non-empty and have the columns Name and Division Title, and one
\* of them has a duplicated (Name, Division Title) pair, the call with
\* force=False merges and returns status 'success'.
C10_DuplicatesAreAWarning ==
    (Ran /\ ~call.force
         /\ before.living.kind = "csv" /\ before.latest.kind = "csv"
         /\ validate_data(before.living) \in {"ok", "duplicate"}
         /\ validate_data(before.latest) \in {"ok", "duplicate"}
         /\ "duplicate" \in {validate_data(before.living), validate_data(before.latest)})
        => result.status = "success"

\* C11: force proceeds past validation.  When the living or the latest data
\* fails validate_data in any way (empty, a required column missing, a
\* duplicated fighter), the call with force=True goes on to the write step
\* and returns status 'success'.
C11_ForceProceeds ==
    (Ran /\ call.force
         /\ before.living.kind = "csv" /\ before.latest.kind = "csv"
         /\ (Invalid(before.living) \/ Invalid(before.latest)))
        => result.status = "success"

\* The set of the elements of a list
Range(q) == {q[i] : i \in 1..Len(q)}

\* results['stats'][data_type]
StatsOf(data_type) ==
    LET i == CHOOSE i \in 1..Len(results.stats) : results.stats[i][1] = data_type
    IN  results.stats[i][2]

HasStats(data_type) == \E i \in 1..Len(results.stats) : results.stats[i][1] = data_type

\* The loop of process_all_files has been through this type
Attempted(data_type) == data_type \in Range(results.attempted)

MissingInput(f) == ~Exists(f.living) /\ ~Exists(f.latest)

\* C12: missing input.  When the loop of process_all_files has been through
\* a type that had neither a living nor a latest file, no file of the type
\* exists, the type is in the skipped list and not in the success list, its
\* stats entry has an error, and once the batch is over a type that was
\* requested after it has been attempted too.
C12_MissingInput ==
    \A i \in 1..Len(results.attempted) :
        LET data_type == results.attempted[i]
        IN  MissingInput(results.before[data_type])
            => /\ dir[data_type] = results.before[data_type]
               /\ data_type \in Range(results.skipped)
               /\ data_type \notin Range(results.success)
               /\ HasStats(data_type)
               /\ StatsOf(data_type).status # "success"
               /\ StatsOf(data_type).error # "none"
               /\ (results.outcome \in {"returned", "raised"} /\ i < Len(results.types))
                     => Len(results.attempted) > i

\* A batch that returned after a type without any file and then a type
\* whose merge succeeded.
C12_Witness ==
    /\ results.outcome = "returned"
    /\ Len(results.attempted) = 3
    /\ MissingInput(results.before[results.attempted[1]])
    /\ results.attempted[1] \in Range(results.skipped)
    /\ results.attempted[2] \in Range(results.success)

\* The last call reached the to_csv of line 212 on an existing living file,
\* with backup=True
Overwrote ==
    /\ Ran /\ call.backup /\ ~call.dry_run
    /\ Exists(before.living) /\ result.status = "success"

\* C13 as stated: backup is a rollback point.  After every run with
\* backup=True and dry_run=False that overwrites an existing living file,
\* today's backup exists and holds the living file as that run found it; a
\* second run of the day included.
C13_BackupIsRollbackPoint ==
    Overwrote => Exists(backupFile) /\ backupFile = before.living

\* C13 amended: after every such run today's backup exists; it holds the
\* living file as the run found it when the run found no backup of today,
\* and it is the backup the run found otherwise (one backup a day, of the
\* living file before the first backed-up run of the day).
C13_BackupOncePerDay ==
    Overwrote
        => /\ Exists(backupFile)
           /\ backupFile = IF Exists(before.backupFile) THEN before.backupFile
                                                        ELSE before.living

\* A second run of the day that changed the living file and left the
\* day's backup, which differs from the living file it found, in place.
C13_Witness ==
    /\ Overwrote
    /\ Exists(before.backupFile)
    /\ backupFile = before.backupFile
    /\ backupFile # before.living
    /\ living # before.living

\* The steps of the general case that come before the to_csv of line 212
BeforeWrite == {"backup", "read_living", "read_latest", "merge", "write"}

\* C14: crash safety.  In a general-case run (the living file exists), as
\* long as the run has not gone through the write step, and also when it
\* was killed before that step or ended early on an exception or a failed
\* validation, the living file holds the content it had when the run began.
C14_CrashSafety ==
    (call.op = "steps" /\ Exists(before.living)
        /\ \/ pc \in BeforeWrite
           \/ pc = "crashed" /\ mem.stopped_at \in BeforeWrite
           \/ pc = "done" /\ result.status # "success")
        => living = before.living

\* A run killed with a merged frame in memory that differs from the living
\* file, just before the write.
C14_Witness ==
    /\ call.op = "steps" /\ ~call.dry_run /\ Exists(before.living)
    /\ pc = "crashed" /\ mem.stopped_at = "write"
    /\ mem.combined_data # before.living
    /\ living = before.living

\* How many of the lists success, failed, skipped hold this type
ListsHolding(data_type) ==
    Cardinality({l \in {"success", "failed", "skipped"} :
                    data_type \in Range(results[l])})

\* C15: failure isolation in a batch.  Whatever the files of the types,
\* unreadable ones included, process_all_files does not end on an exception;
\* when it has returned it has attempted every requested type, and every
\* requested type is in exactly one of the lists success, failed, skipped,
\* the one that matches the status of its stats entry.
C15_FailureIsolation ==
    /\ results.outcome # "raised"
    /\ results.outcome = "returned"
          => /\ results.attempted = results.types
             /\ \A data_type \in Range(results.types) :
                   /\ ListsHolding(data_type) = 1
                   /\ HasStats(data_type)
                   /\ data_type \in Range(results[ListOf(StatsOf(data_type).status)])

\* A cell read as a number: 5 and 5.0 are the same value
Value(c) == float_format(c)

\* The value is there, not empty and not the zero token
RealValue(c) == c # "" /\ c # "0"

\* The composite-key run merged two frames
CKMerged ==
    /\ CKRan /\ before.living.kind = "csv" /\ before.latest.kind = "csv"
    /\ result.outcome = "returned"

\* C16: placeholder and correction override, composite-key reconciler.  For
\* every key of both files and every column other than Player, Date and
\* Opponent (here Stat and Result), when the latest record of the key has a
\* value that is not empty and not '0', every record of the key in the file
\* written holds that value.
C16_CKOverride ==
    CKMerged
        => \A k \in KeySet(before.living) \cap KeySet(before.latest) :
             \A r \in {r \in RowSet(living) : composite_key(r) = k} :
                 /\ RealValue(latest_record(before.latest, k).Stat)
                       => Value(r.Stat) = Value(latest_record(before.latest, k).Stat)
                 /\ RealValue(latest_record(before.latest, k).Result)
                       => r.Result = latest_record(before.latest, k).Result

\* The value is the empty cell or the zero token
Placeholder(c) == c = "" \/ c = "0"

\* C17: retention against placeholders, composite-key reconciler.  For
\* every key of both files and every column other than Player, Date and
\* Opponent: when the latest record of the key has an empty cell or '0',
\* every non-empty value that a living record of the key had is still the
\* value of a record of the key in the file written.
C17_CKRetention ==
    CKMerged
        => \A k \in KeySet(before.living) \cap KeySet(before.latest) :
             \A r \in {r \in RowSet(before.living) : composite_key(r) = k} :
                 /\ (r.Stat # "" /\ Placeholder(latest_record(before.latest, k).Stat))
                       => \E w \in RowSet(living) :
                             composite_key(w) = k /\ Value(w.Stat) = Value(r.Stat)
                 /\ (r.Result # "" /\ Placeholder(latest_record(before.latest, k).Result))
                       => \E w \in RowSet(living) :
                             composite_key(w) = k /\ w.Result = r.Result

\* The rows of a fighter in a file
RowsOf(f, n) == {r \in RowSet(f) : r.Name = n}

\* The last call was a non-dry-run merge of the current reconciler on an
\* existing living file that ended with status 'success'
Merged ==
    /\ Ran /\ ~call.dry_run /\ Exists(before.living)
    /\ result.status = "success"

\* C18: retention against placeholders, current reconciler.  For every
\* fighter of both files: when every latest row of the fighter has an empty
\* Wins cell or '0', every non-empty Wins value that a living row of the
\* fighter had is still the Wins value of a row of the fighter in the
\* living file written.
C18_Retention ==
    Merged
        => \A n \in NameSet(before.living) \cap NameSet(before.latest) :
             (\A w \in RowsOf(before.latest, n) : Placeholder(w.Wins))
                => \A r \in RowsOf(before.living, n) :
                      r.Wins # ""
                         => \E w \in RowsOf(living, n) : Value(w.Wins) = Value(r.Wins)

\* The part of a report that does not depend on what was written
Report(res) ==
    [outcome |-> res.outcome, status |-> res.status, error |-> res.error,
     previous_records |-> res.previous_records, new_records |-> res.new_records,
     total_records |-> res.total_records,
     new_unique_records |-> res.new_unique_records,
     preserved_records |-> res.preserved_records]

\* C19: a dry run computes the same report.  On the files a call found and
\* with its force flag, the call with the other value of dry_run (and any
\* value of backup) returns the same status, error, previous_records,
\* new_records, total_records, new_unique_records and preserved_records.
C19_DryRunSameReport ==
    Ran => \A backup \in BOOLEAN :
              Report(merge_ufc_data(before.living, before.latest, before.backupFile,
                                    backup, call.force, ~call.dry_run).result)
                  = Report(result)

\* A dry run that reports fighters added and preserved, where the run with
\* dry_run=False writes another living file.
C19_Witness ==
    /\ Ran /\ call.dry_run /\ result.status = "success"
    /\ result.new_unique_records > 0 /\ result.preserved_records > 0
    /\ living = before.living
    /\ merge_ufc_data(before.living, before.latest, before.backupFile,
                      call.backup, call.force, FALSE).living # living

\* C20: full-row deduplication.  The living file written by a successful
\* general-case run has no two rows that are equal in every column, and
\* total_records is the number of rows written.
C20_FullRowDeduplication ==
    Merged
        => /\ \A i, j \in 1..Len(living.rows) :
                 living.rows[i] = living.rows[j] => i = j
           /\ result.total_records = Len(living.rows)

\* A run whose concatenated frame had a row twice and that wrote it once,
\* next to another row.
C20_Witness ==
    /\ Merged
    /\ Len(living.rows) >= 2
    /\ Len(before.latest.rows) + result.preserved_records > Len(living.rows)

\* C21: deterministic order.  The rows of the living file written by a
\* successful general-case run of the current reconciler are ordered by
\* fighter name, ascending (the files of the current reconciler have no date
\* column to order by within one name).
C21_DeterministicOrder ==
    Merged
        => \A i, j \in 1..Len(living.rows) :
              i < j => PlayerRank(living.rows[i].Name) <= PlayerRank(living.rows[j].Name)

\* C22: latest is read-only.  No step of process_all_files, and so no call
\* of merge_ufc_data it makes, whatever the flags and the outcome, creates,
\* changes or removes the latest file of any type.
C22_LatestReadOnly ==
    [][\A data_type \in TypeSet : dir'[data_type].latest = dir[data_type].latest]_vars

\* A batch that created or rewrote the living file of a type whose latest
\* file is still as it was.
C22_Witness ==
    \E data_type \in TypeSet :
        /\ Attempted(data_type)
        /\ dir[data_type].living # results.before[data_type].living
        /\ Exists(dir[data_type].latest)
        /\ dir[data_type].latest = results.before[data_type].latest

\* A Player cell that holds a name (an empty cell is read as NaN, no value)
PlayerValues(ds) == find_unique_fighters(ds) \ {""}

BackedUpRun == call'.op = "merge" /\ call'.backup /\ ~call'.dry_run

\* C24 as stated: one backup per day, the first run wins.  Once a non-dry-run
\* run with backup=True has been made on a day, the backup of that day holds
\* the living content from before that run, so the next such run of the day
\* does not write the backup.
C24_FirstRunOfDayWins ==
    [][(Ran /\ call.backup /\ ~call.dry_run /\ BackedUpRun)
          => backupFile' = backupFile]_vars

\* C24 amended: one backup per day, the first run on an existing living file
\* wins.  Within a day a backup file is never rewritten; it is written only
\* by a non-dry-run run with backup=True that found a living file and no
\* backup, and then holds that living file; every such run on an existing
\* living file leaves the backup in place, so the run that wrote it is the
\* first of them; and a non-dry-run run reports backup_created exactly when
\* it wrote the backup.
C24_FirstBackupWins ==
    [][/\ (Exists(backupFile) /\ Exists(backupFile')) => backupFile' = backupFile
       /\ (~Exists(backupFile) /\ Exists(backupFile'))
              => BackedUpRun /\ Exists(living) /\ backupFile' = living
       /\ (BackedUpRun /\ Exists(living)) => Exists(backupFile')
       /\ (call'.op = "merge" /\ ~call'.dry_run)
              => (result'.backup_created = "created"
                     <=> (~Exists(backupFile) /\ Exists(backupFile')))]_vars

\* A later run of the day, with backup=True and dry_run=False, that rewrote
\* the living file, found the backup of an earlier run, left it as it was
\* and reported no backup.
C24_Witness ==
    /\ Ran /\ call.backup /\ ~call.dry_run
    /\ result.status = "success" /\ result.backup_created = "none"
    /\ Exists(before.backupFile) /\ backupFile = before.backupFile
    /\ Exists(before.living) /\ before.living # backupFile
    /\ living # before.living

\* C25: the living dataset only grows.  A successful non-dry-run run on an
\* existing living file writes a living file with at least as many records
\* as the one it read: total_records >= previous_records, and
\* new_unique_records = total_records - previous_records.
C25_LivingOnlyGrows ==
    Merged
        => /\ Len(living.rows) >= Len(before.living.rows)
           /\ result.total_records >= result.previous_records
           /\ result.new_unique_records
                  = result.total_records - result.previous_records

\* Both frames of the run pass validate_data
BothValid ==
    /\ before.living.kind = "csv" /\ validate_data(before.living) = "ok"
    /\ before.latest.kind = "csv" /\ validate_data(before.latest) = "ok"

\* C26: validation is closed under merging.  When the living and the latest
\* file both pass validate_data, the living file written by a successful run
\* passes validate_data too: it has rows, the Name and Division Title
\* columns, and no (Name, Division Title) pair twice.
C26_ValidationClosed ==
    (Merged /\ BothValid)
        => /\ living.kind = "csv"
           /\ validate_data(living) = "ok"

\* A run on two valid files that wrote a living file of a fighter of the
\* latest file followed by a purged fighter.
C26_Witness ==
    /\ Merged /\ BothValid
    /\ result.preserved_records > 0
    /\ Len(living.rows) = Len(before.latest.rows) + result.preserved_records
    /\ Len(before.latest.rows) > 0

\* C27: an aborted run leaves no trace.  A run that returns status 'failed'
\* or 'skipped' has created no backup file and changed no file, whatever
\* its flags: the living file, the latest file and the backup of the day
\* are as the run found them.
C27_AbortedRunLeavesNoTrace ==
    (Ran /\ result.outcome = "returned" /\ result.status \in {"failed", "skipped"})
        => /\ living = before.living
           /\ latest = before.latest
           /\ backupFile = before.backupFile

\* The (Name, Division Title) pairs of a file
FighterPairs(f) == {<<f.rows[i].Name, f.rows[i].Division>> : i \in 1..Len(f.rows)}

\* C28: union preservation at the identity used by validation.  When the
\* living and the latest file both pass validate_data, every (Name, Division
\* Title) pair of either file is a pair of the living file written by a
\* successful run.
C28_PairUnionPreservation ==
    (Merged /\ BothValid)
        => (FighterPairs(before.living) \cup FighterPairs(before.latest))
               \subseteq FighterPairs(living)

\* scrape_fighters has mapped a list and its executor is shut down
Scraped ==
    /\ script = "espn_fighter_scraper"
    /\ work_queue.fighters # << >>
    /\ ~work_queue.running

\* C29: the scrape counters are exact under concurrency.  After
\* scrape_fighters has processed a list of n fighters with max_workers > 1,
\* success_count + failure_count = n, whatever the interleaving of the
\* worker threads.
C29_CountersExact ==
    Scraped => success_count + failure_count = Len(work_queue.fighters)

\* C30: bounded retry.  Whatever requests fail, a call of _make_request of
\* either scraper makes at most max_retries + 1 attempts, returns None only
\* when attempt number max_retries + 1 has failed, and no RequestException
\* reaches the caller.
C30_BoundedRetry ==
    script = "ufc_scraper"
        => /\ request.attempts <= request.max_retries + 1
           /\ request.returned = "None"
                  => request.attempts = request.max_retries + 1
           /\ request.returned # "RequestException"

====
